---------------------------- MODULE Spec2Model ----------------------------
(***************************************************************************)
(* Model of src/main.rs: one single-shot GPU job.  main is a straight line *)
(* of fallible calls, each followed by the `?` operator; after the command *)
(* buffer is flushed to the queue the GPU executes the recorded commands   *)
(* concurrently with the host, which blocks in wait(None) on the fence.    *)
(***************************************************************************)
EXTENDS Integers, Sequences, FiniteSets

VARIABLES
    pc,            \* the fallible call main is about to make, or done/failed
    failedAt,      \* the call whose error `?` returned from main, or "none"
    ran,           \* the calls main has made so far, in order
    families,      \* queue_family_properties() of the first physical device
    qfi,           \* queue_family_index (0-based), -1 before selection
    device,        \* a logical device (and its one queue) exists
    width, height, \* image extent
    bufUsage,      \* BufferCreateInfo.usage of buf
    bufPlacement,  \* memory_type_filter of buf
    img,           \* content of the device image
    bufc,          \* content of buf
    cmds,          \* commands recorded into command_buffer_builder
    built,         \* build() has produced the command buffer
    submits,       \* number of times the command buffer reached the queue
    gpu,           \* idle | running | lost
    gpuStarted,    \* indices of cmds the GPU has started
    gpuDone,       \* indices of cmds the GPU has completed
    fence,         \* the fence of the submission has signalled
    waitRes,       \* none | ok | err | timeout : what future.wait returned
    bufRead,       \* none | ok | err : what buf.read() returned
    content,       \* buffer_content seen by the host
    saved          \* image.png has been written

hostVars == <<pc, failedAt, ran>>
ctxVars  == <<families, qfi, device>>
cfgVars  == <<width, height, bufUsage, bufPlacement>>
resVars  == <<img, bufc>>
cmdVars  == <<cmds, built>>
gpuVars  == <<submits, gpu, gpuStarted, gpuDone, fence>>
outVars  == <<waitRes, bufRead, content, saved>>
vars     == <<pc, failedAt, ran, families, qfi, device, width, height,
              bufUsage, bufPlacement, img, bufc, cmds, built, submits, gpu,
              gpuStarted, gpuDone, fence, waitRes, bufRead, content, saved>>

---------------------------------------------------------------------------
(* Bounds of the model *)
MaxFamilies == 2
MaxExtent == 9

(* Program constants *)
Width == 4096
Height == 4096
LocalSize == 8
BytesPerPixel == 4

QueueFlags == {"GRAPHICS", "COMPUTE", "TRANSFER"}
ImageUsage == {"STORAGE", "TRANSFER_SRC"}
ImagePlacement == {"PREFER_DEVICE"}
BufUsage == {"TRANSFER_DST"}
(* Variant: buf allocated like the image, device-local *)
BufPlacementDevice == {"PREFER_DEVICE"}
BufPlacement == {"PREFER_HOST", "HOST_RANDOM_ACCESS"}
CbUsage == "OneTimeSubmit"
(* Variant: wait called with a finite timeout *)
WaitTimeoutSome == "Some"
WaitTimeout == "None"
ReadTarget == "buf"

BufferUsages == SUBSET {"TRANSFER_SRC", "TRANSFER_DST"}
Placements == {{"PREFER_DEVICE"},
               {"PREFER_HOST", "HOST_SEQUENTIAL_WRITE"},
               {"PREFER_HOST", "HOST_RANDOM_ACCESS"}}
Extents == (1..MaxExtent) \cup {Width}

(* The fallible calls of main, in program order *)
Steps == << "library", "instance", "enumerate_physical_devices",
            "physical_device", "queue_family_index", "device", "shader",
            "pipeline_layout_info", "pipeline_layout", "compute_pipeline",
            "image", "view", "set_layout", "set", "buf",
            "command_buffer_builder", "bind_pipeline_compute",
            "bind_descriptor_sets", "dispatch", "copy_image_to_buffer",
            "build", "then_execute", "then_signal_fence_and_flush", "wait",
            "read", "from_raw", "save" >>

Index(s) == CHOOSE i \in 1..Len(Steps) : Steps[i] = s

(* Variant: a retry loop that executes the command buffer again after wait *)
SuccResubmit(s) ==
    IF s = "wait" THEN "then_execute"
    ELSE IF Index(s) = Len(Steps) THEN "done" ELSE Steps[Index(s) + 1]
Succ(s) == IF Index(s) = Len(Steps) THEN "done" ELSE Steps[Index(s) + 1]

(* `?` : on Err return it from main, on Ok go on to the next call *)
(* Variant: the error is noted but main goes on *)
RetIgnore(s, ok) ==
    /\ pc' = Succ(s)
    /\ failedAt' = IF ok THEN failedAt ELSE s
    /\ ran' = Append(ran, s)
Ret(s, ok) ==
    /\ pc' = IF ok THEN Succ(s) ELSE "failed"
    /\ failedAt' = IF ok THEN failedAt ELSE s
    /\ ran' = Append(ran, s)

(* The results a call can give: Err always possible, Ok only when valid *)
Outcomes(valid) == IF valid THEN {TRUE, FALSE} ELSE {FALSE}

---------------------------------------------------------------------------
(* Device context *)

HasGraphics(f) == \E i \in 1..Len(f) : "GRAPHICS" \in f[i]

(* .iter().enumerate().position(|..| flags.contains(GRAPHICS)) : 0-based,
   -1 stands for None *)
Position(f) ==
    IF HasGraphics(f)
    THEN (CHOOSE i \in 1..Len(f) :
             /\ "GRAPHICS" \in f[i]
             /\ \A j \in 1..(i - 1) : "GRAPHICS" \notin f[j]) - 1
    ELSE -1

SeqsUpTo(S, n) == UNION {[1..k -> S] : k \in 0..n}

(* The lists a Vulkan device may report: when some family supports
   graphics, some family supports graphics and compute *)
Reportable(f) ==
    HasGraphics(f) =>
        \E i \in 1..Len(f) : {"GRAPHICS", "COMPUTE"} \subseteq f[i]

---------------------------------------------------------------------------
(* Work-group count and buffer length *)

(* Variant: the divisor is not the shader's local size *)
GroupCountHalved(extent) == extent \div (2 * LocalSize)
GroupCount(extent) == extent \div LocalSize

(* (0..width * height * 4): u32 arithmetic; for extents up to 4096 the
   product is at most 2^26 and cannot wrap *)
BufLen(w, h) == w * h * BytesPerPixel

(* Recorded commands *)
(* Variant: the descriptor set is not bound to the image that is copied *)
DispatchCmdUnbound(w, h) ==
    [op |-> "dispatch", reads |-> {}, writes |-> {},
     groups |-> <<GroupCount(w), GroupCount(h), 1>>]
DispatchCmd(w, h) ==
    [op |-> "dispatch", reads |-> {}, writes |-> {"image"},
     groups |-> <<GroupCount(w), GroupCount(h), 1>>]

CopyCmd ==
    [op |-> "copy", reads |-> {"image"}, writes |-> {"buf"},
     groups |-> <<0, 0, 0>>]

Touches(c) == c.reads \cup c.writes
Conflicts(c, d) ==
    \/ c.writes \cap Touches(d) # {}
    \/ d.writes \cap Touches(c) # {}

(* Usage flags a command needs of a resource it references *)
Needs(c, r) ==
    IF c.op = "dispatch" /\ r = "image" THEN {"STORAGE"}
    ELSE IF c.op = "copy" /\ r = "image" THEN {"TRANSFER_SRC"}
    ELSE IF c.op = "copy" /\ r = "buf" THEN {"TRANSFER_DST"}
    ELSE {}

UsageOf(r) == IF r = "image" THEN ImageUsage ELSE bufUsage

(* Validation of copy_image_to_buffer by the recorder *)
CopyValid ==
    /\ "TRANSFER_SRC" \in ImageUsage
    /\ "TRANSFER_DST" \in bufUsage

(* Host access to mapped memory *)
HostVisible(p) ==
    "HOST_RANDOM_ACCESS" \in p \/ "HOST_SEQUENTIAL_WRITE" \in p

PlacementOf(r) == IF r = "image" THEN ImagePlacement ELSE bufPlacement

ReadValid == HostVisible(PlacementOf(ReadTarget))

(* Every pixel is inside some work group *)
Covered(c, w, h) ==
    c.groups[1] * LocalSize >= w /\ c.groups[2] * LocalSize >= h

---------------------------------------------------------------------------
TypeOK ==
    /\ pc \in {Steps[i] : i \in 1..Len(Steps)} \cup {"done", "failed"}
    /\ submits \in Nat
    /\ gpu \in {"idle", "running", "lost"}
    /\ waitRes \in {"none", "ok", "err", "timeout"}
    /\ bufRead \in {"none", "ok", "err"}

InitCommon ==
    /\ pc = "library"
    /\ failedAt = "none"
    /\ ran = << >>
    /\ qfi = -1
    /\ device = FALSE
    /\ img = "unallocated"
    /\ bufc = "unallocated"
    /\ cmds = << >>
    /\ built = FALSE
    /\ submits = 0
    /\ gpu = "idle"
    /\ gpuStarted = {}
    /\ gpuDone = {}
    /\ fence = FALSE
    /\ waitRes = "none"
    /\ bufRead = "none"
    /\ content = "none"
    /\ saved = FALSE

(* main as written: the hardware chooses the queue families *)
Init ==
    /\ InitCommon
    /\ families \in {f \in SeqsUpTo(SUBSET QueueFlags, MaxFamilies) :
                        Reportable(f)}
    /\ width = Width
    /\ height = Height
    /\ bufUsage = BufUsage
    /\ bufPlacement = BufPlacement

(* the same job for any extent, buffer usage and buffer placement *)
InitConfig ==
    /\ InitCommon
    /\ families = << QueueFlags >>
    /\ width \in Extents
    /\ height \in Extents
    /\ bufUsage \in BufferUsages
    /\ bufPlacement \in Placements

---------------------------------------------------------------------------
(* Host steps *)

Simple(s) ==
    /\ pc = s
    /\ \E ok \in BOOLEAN : Ret(s, ok)
    /\ UNCHANGED <<ctxVars, cfgVars, resVars, cmdVars, gpuVars, outVars>>

LoadLibrary == Simple("library")
CreateInstance == Simple("instance")
EnumerateDevices == Simple("enumerate_physical_devices")
FirstDevice == Simple("physical_device")

SelectQueueFamily ==
    /\ pc = "queue_family_index"
    /\ qfi' = Position(families)
    /\ Ret("queue_family_index", Position(families) # -1)
    /\ UNCHANGED <<families, device, cfgVars, resVars, cmdVars, gpuVars,
                   outVars>>

CreateDevice ==
    /\ pc = "device"
    /\ \E ok \in BOOLEAN :
          /\ device' = ok
          /\ Ret("device", ok)
    /\ UNCHANGED <<families, qfi, cfgVars, resVars, cmdVars, gpuVars,
                   outVars>>

LoadShader == Simple("shader")
LayoutInfo == Simple("pipeline_layout_info")
CreateLayout == Simple("pipeline_layout")
CreatePipeline == Simple("compute_pipeline")

CreateImage ==
    /\ pc = "image"
    /\ \E ok \in BOOLEAN :
          /\ img' = IF ok THEN "undefined" ELSE img
          /\ Ret("image", ok)
    /\ UNCHANGED <<ctxVars, cfgVars, bufc, cmdVars, gpuVars, outVars>>

CreateView == Simple("view")
GetSetLayout == Simple("set_layout")
CreateSet == Simple("set")

CreateBuffer ==
    /\ pc = "buf"
    /\ \E ok \in BOOLEAN :
          /\ bufc' = IF ok THEN "zeros" ELSE bufc
          /\ Ret("buf", ok)
    /\ UNCHANGED <<ctxVars, cfgVars, img, cmdVars, gpuVars, outVars>>

CreateBuilder == Simple("command_buffer_builder")
BindPipeline == Simple("bind_pipeline_compute")
BindSets == Simple("bind_descriptor_sets")

RecordDispatch ==
    /\ pc = "dispatch"
    /\ \E ok \in BOOLEAN :
          /\ cmds' = IF ok THEN Append(cmds, DispatchCmd(width, height))
                     ELSE cmds
          /\ Ret("dispatch", ok)
    /\ UNCHANGED <<ctxVars, cfgVars, resVars, built, gpuVars, outVars>>

(* Variant: the Result of copy_image_to_buffer is discarded *)
RecordCopyUnchecked ==
    /\ pc = "copy_image_to_buffer"
    /\ \E ok \in Outcomes(CopyValid) :
          /\ cmds' = IF ok THEN Append(cmds, CopyCmd) ELSE cmds
          /\ Ret("copy_image_to_buffer", TRUE)
    /\ UNCHANGED <<ctxVars, cfgVars, resVars, built, gpuVars, outVars>>
RecordCopy ==
    /\ pc = "copy_image_to_buffer"
    /\ \E ok \in Outcomes(CopyValid) :
          /\ cmds' = IF ok THEN Append(cmds, CopyCmd) ELSE cmds
          /\ Ret("copy_image_to_buffer", ok)
    /\ UNCHANGED <<ctxVars, cfgVars, resVars, built, gpuVars, outVars>>

Build ==
    /\ pc = "build"
    /\ \E ok \in BOOLEAN :
          /\ built' = ok
          /\ Ret("build", ok)
    /\ UNCHANGED <<ctxVars, cfgVars, resVars, cmds, gpuVars, outVars>>

ThenExecute == Simple("then_execute")

Flush ==
    /\ pc = "then_signal_fence_and_flush"
    /\ \E ok \in BOOLEAN :
          /\ submits' = IF ok THEN submits + 1 ELSE submits
          /\ gpu' = IF ok THEN "running" ELSE gpu
          /\ Ret("then_signal_fence_and_flush", ok)
    /\ UNCHANGED <<ctxVars, cfgVars, resVars, cmdVars, gpuStarted, gpuDone,
                   fence, outVars>>

(* What wait(timeout) can return in the current state; empty: it blocks *)
WaitOutcomes ==
    IF fence THEN {"ok"}
    ELSE IF gpu = "lost" THEN {"err"}
    ELSE IF WaitTimeout = "None" THEN {} ELSE {"timeout"}

(* Variant: the Result of wait is discarded *)
WaitUnchecked ==
    /\ pc = "wait"
    /\ \E r \in WaitOutcomes :
          /\ waitRes' = r
          /\ Ret("wait", TRUE)
    /\ UNCHANGED <<ctxVars, cfgVars, resVars, cmdVars, gpuVars, bufRead,
                   content, saved>>
Wait ==
    /\ pc = "wait"
    /\ \E r \in WaitOutcomes :
          /\ waitRes' = r
          /\ Ret("wait", r = "ok")
    /\ UNCHANGED <<ctxVars, cfgVars, resVars, cmdVars, gpuVars, bufRead,
                   content, saved>>

Read ==
    /\ pc = "read"
    /\ \E ok \in Outcomes(ReadValid) :
          /\ bufRead' = IF ok THEN "ok" ELSE "err"
          /\ content' = IF ok THEN bufc ELSE content
          /\ Ret("read", ok)
    /\ UNCHANGED <<ctxVars, cfgVars, resVars, cmdVars, gpuVars, waitRes,
                   saved>>

FromRaw ==
    /\ pc = "from_raw"
    /\ Ret("from_raw", BufLen(width, height) >= width * height * BytesPerPixel)
    /\ UNCHANGED <<ctxVars, cfgVars, resVars, cmdVars, gpuVars, outVars>>

Save ==
    /\ pc = "save"
    /\ \E ok \in BOOLEAN :
          /\ saved' = ok
          /\ Ret("save", ok)
    /\ UNCHANGED <<ctxVars, cfgVars, resVars, cmdVars, gpuVars, waitRes,
                   bufRead, content>>

---------------------------------------------------------------------------
(* The GPU: executes the submitted command buffer.  A command may start
   once every earlier command that touches a resource it touches has
   completed. *)

GpuStart ==
    /\ gpu = "running"
    /\ \E i \in (1..Len(cmds)) \ gpuStarted :
          /\ \A j \in 1..(i - 1) :
                Conflicts(cmds[j], cmds[i]) => j \in gpuDone
          /\ gpuStarted' = gpuStarted \cup {i}
    /\ UNCHANGED <<hostVars, ctxVars, cfgVars, resVars, cmdVars, submits,
                   gpu, gpuDone, fence, outVars>>

GpuComplete ==
    /\ gpu = "running"
    /\ \E i \in gpuStarted \ gpuDone :
          /\ gpuDone' = gpuDone \cup {i}
          /\ img' = IF cmds[i].op = "dispatch"
                    THEN (IF Covered(cmds[i], width, height)
                          THEN "shader" ELSE "partial")
                    ELSE img
          /\ bufc' = IF cmds[i].op = "copy" THEN img ELSE bufc
    /\ UNCHANGED <<hostVars, ctxVars, cfgVars, cmdVars, submits, gpu,
                   gpuStarted, fence, outVars>>

GpuSignal ==
    /\ gpu = "running"
    /\ gpuDone = 1..Len(cmds)
    /\ fence' = TRUE
    /\ gpu' = "idle"
    /\ UNCHANGED <<hostVars, ctxVars, cfgVars, resVars, cmdVars, submits,
                   gpuStarted, gpuDone, outVars>>

GpuLost ==
    /\ gpu = "running"
    /\ gpu' = "lost"
    /\ UNCHANGED <<hostVars, ctxVars, cfgVars, resVars, cmdVars, submits,
                   gpuStarted, gpuDone, fence, outVars>>

---------------------------------------------------------------------------
Next ==
    \/ LoadLibrary \/ CreateInstance \/ EnumerateDevices \/ FirstDevice
    \/ SelectQueueFamily \/ CreateDevice
    \/ LoadShader \/ LayoutInfo \/ CreateLayout \/ CreatePipeline
    \/ CreateImage \/ CreateView \/ GetSetLayout \/ CreateSet
    \/ CreateBuffer
    \/ CreateBuilder \/ BindPipeline \/ BindSets
    \/ RecordDispatch \/ RecordCopy \/ Build
    \/ ThenExecute \/ Flush \/ Wait
    \/ Read \/ FromRaw \/ Save
    \/ GpuStart \/ GpuComplete \/ GpuSignal \/ GpuLost

Spec == Init /\ [][Next]_vars

SpecConfig == InitConfig /\ [][Next]_vars

(* The host thread keeps running and the GPU keeps making progress *)
FairSpec == Init /\ [][Next]_vars /\ WF_vars(Next)

---------------------------------------------------------------------------
(* Properties *)

Range(s) == {s[i] : i \in 1..Len(s)}
Count(s, x) == Cardinality({i \in 1..Len(s) : s[i] = x})
Dispatches == {k \in 1..Len(cmds) : cmds[k].op = "dispatch"}
Copies == {k \in 1..Len(cmds) : cmds[k].op = "copy"}
BeforeSubmission ==
    {Steps[i] : i \in 1..(Index("then_signal_fence_and_flush") - 1)}

(* C1: the host reads buf only after wait has returned success, when the
   fence has signalled and every command has completed; when wait fails
   the read never happens; between submission and a successful wait main
   makes no read. *)
C1_ReadOnlyAfterWait ==
    /\ bufRead # "none" =>
          waitRes = "ok" /\ fence /\ gpuDone = 1..Len(cmds)
    /\ waitRes \in {"err", "timeout"} =>
          bufRead = "none" /\ content = "none" /\ "read" \notin Range(ran)
    /\ submits > 0 /\ waitRes # "ok" => "read" \notin Range(ran)

C1_Witness == bufRead = "ok" /\ waitRes = "ok" /\ submits = 1

(* C2: the dispatch is recorded before the copy; on the GPU the copy of
   the image starts only after the dispatch that writes the image has
   completed; the bytes the host reads are the ones the dispatch wrote and
   buf never holds the image's earlier (undefined) content. *)
C2_RecordedOrder ==
    /\ \A i \in Dispatches : \A j \in Copies :
          /\ i < j
          /\ j \in gpuStarted => i \in gpuDone
    /\ bufRead = "ok" => content = "shader"
    /\ bufc \in {"unallocated", "zeros", "shader"}

C2_Witness ==
    /\ bufRead = "ok" /\ content = "shader"
    /\ Dispatches = {1} /\ Copies = {2} /\ gpuDone = {1, 2}

(* C3: main aborts on the first failure: the failing call is the last call
   made and its error is returned; the calls made are a prefix of the
   program; a failure before submission leaves the queue untouched; a
   failure of submission or of the wait leaves buf unread and no image
   saved. *)
C3_AbortOnFirstFailure ==
    /\ failedAt # "none" <=> pc = "failed"
    /\ failedAt # "none" => Len(ran) > 0 /\ ran[Len(ran)] = failedAt
    /\ Len(ran) <= Len(Steps) /\ \A k \in 1..Len(ran) : ran[k] = Steps[k]
    /\ failedAt \in BeforeSubmission \cup {"then_signal_fence_and_flush"} =>
          submits = 0 /\ gpu = "idle" /\ gpuStarted = {}
    /\ failedAt \in {"then_execute", "then_signal_fence_and_flush", "wait"} =>
          bufRead = "none" /\ content = "none" /\ ~saved

C3_Witness == failedAt = "wait" /\ pc = "failed" /\ submits = 1

(* C4: the command buffer is created for one submission and reaches the
   queue at most once in every execution. *)
C4_SingleSubmission ==
    /\ CbUsage = "OneTimeSubmit"
    /\ submits <= 1
    /\ Count(ran, "then_execute") <= 1
    /\ Count(ran, "then_signal_fence_and_flush") <= 1

C4_Witness == submits = 1 /\ pc = "done"

(* C5: whenever the logical device has been created the selected queue
   family supports compute, and when no family supports compute the
   selection fails and no device is created. *)
C5_SelectedFamilyHasCompute ==
    /\ device => qfi >= 0 /\ "COMPUTE" \in families[qfi + 1]
    /\ (\A i \in 1..Len(families) : "COMPUTE" \notin families[i])
          /\ "queue_family_index" \in Range(ran) =>
             failedAt = "queue_family_index" /\ ~device

C7_UsageCheckedAtRecording ==
    /\ \A k \in 1..Len(cmds) : \A r \in Touches(cmds[k]) :
          Needs(cmds[k], r) \subseteq UsageOf(r)
    /\ "TRANSFER_DST" \notin bufUsage
          /\ "copy_image_to_buffer" \in Range(ran) =>
             /\ failedAt = "copy_image_to_buffer" /\ pc = "failed"
             /\ Copies = {} /\ ~built /\ submits = 0

C7_Witness ==
    /\ "TRANSFER_DST" \notin bufUsage
    /\ failedAt = "copy_image_to_buffer"

(* C8: a read succeeds only on a host-visible resource and only after a
   successful wait; a read of a resource that is not host-visible fails;
   with the placement main gives buf the resource read is host-visible
   with random access. *)
C8_ReadHostVisibleOnly ==
    /\ bufRead = "ok" =>
          HostVisible(PlacementOf(ReadTarget)) /\ waitRes = "ok"
    /\ ~HostVisible(PlacementOf(ReadTarget)) /\ "read" \in Range(ran) =>
          bufRead = "err" /\ failedAt = "read" /\ content = "none"
    /\ bufPlacement = BufPlacement /\ "read" \in Range(ran) =>
          /\ ReadTarget = "buf"
          /\ "HOST_RANDOM_ACCESS" \in PlacementOf(ReadTarget)

C8_Witness ==
    /\ ~HostVisible(bufPlacement)
    /\ failedAt = "read" /\ waitRes = "ok"

(* C9: wait never returns with a timeout; it returns success only once the
   fence has signalled and failure only once the device is lost; once the
   command buffer is submitted wait eventually returns; a failed job stays
   failed and submits nothing more. *)
C9_RunsToTerminalState ==
    /\ [](waitRes # "timeout")
    /\ [](waitRes = "ok" => fence)
    /\ [](waitRes = "err" => gpu = "lost")
    /\ (submits > 0) ~> (waitRes \in {"ok", "err"})
    /\ [][pc = "failed" => pc' = "failed" /\ submits' = submits]_vars

C9_Witness == submits = 1 /\ waitRes = "err" /\ pc = "failed"

============================================================================
